---------------------------- MODULE Spec2Model ----------------------------
(***************************************************************************)
(* hash-omikuji: the 1-D randomart walk (art.rs), the bit-field reader and *)
(* the field catalog (hash.rs), the seed string (hash.rs) and the          *)
(* January-1st gate (cli.rs, main.rs).                                     *)
(*                                                                         *)
(* Text is a sequence of one-character strings.  A u64 is a sequence of    *)
(* 64 bits, most significant first, so that shifts keep their 64-bit       *)
(* width: Bit(x, j) is the bit of weight 2^j.  A digest is a function      *)
(* 0..31 -> 0..255.                                                        *)
(***************************************************************************)
EXTENDS Integers, Sequences, FiniteSets, TLC

VARIABLES
    pc,          \* position of the running operation
    hash_bytes,  \* the 32-byte digest (HashBits.bytes / the argument of the art)
    byte_idx,    \* art: index of the byte of the outer loop
    shift,       \* art: shift of the inner loop (0, 2, 4, 6)
    position,    \* art: current cell
    grid,        \* art: visit counters
    art,         \* art: the returned string
    start_bit,   \* get_bits: argument
    num_bits,    \* get_bits: argument
    result,      \* get_bits: returned u64
    target,      \* catalog: the bit range the digest was built around
    field,       \* catalog: the accessor called last
    value,       \* catalog: what it returned
    exact,       \* catalog: every cast and shift of the call kept the value
    reads,       \* catalog: the digest bits each get_bits call of it indexed
    calls,       \* from_seed: the last calls, newest last
    date,        \* cli: --date
    force_year,  \* cli: --force-year
    now,         \* cli: the local clock
    consulted,   \* cli: Local::now() was called by is_january_first
    outcome,     \* cli: what can_execute returned
    stderr,      \* cli: lines written to standard error
    stdout,      \* cli: lines written to standard output
    exit_status  \* cli: the process exit status

vars == <<pc, hash_bytes, byte_idx, shift, position, grid, art, start_bit,
          num_bits, result, target, field, value, exact, reads, calls, date,
          force_year, now, consulted, outcome, stderr, stdout, exit_status>>

artVars == <<byte_idx, shift, position, grid, art>>
readerVars == <<start_bit, num_bits, result>>
fieldVars == <<target, field, value, exact, reads>>
cliVars == <<date, force_year, now, consulted, outcome, stderr, stdout, exit_status>>

None == "none"

\* Option<T>: None is the empty sequence, Some(x) the sequence of x alone.
NoneOpt == <<>>
Some(x) == <<x>>

----------------------------------------------------------------------------
(* Bounds of the model and constants of the program.                       *)

MaxFill == 2
MaxVal == 7

DigestLen == 32
DigestBits == 8 * DigestLen
WIDTH == 16
U64Bits == 64
U8Max == 255

----------------------------------------------------------------------------
(* Digests.                                                                *)

Pow2(n) == 2 ^ n

\* Bit k of the digest, most significant bit of each byte first.
BitAt(bytes, k) == (bytes[k \div 8] \div Pow2(7 - (k % 8))) % 2

ZeroDigest == [i \in 0 .. DigestLen - 1 |-> 0]

FillByte(k) == (k * 85) % 256
ValByte(k) == (k * 73) % 256

Fill(k) == [i \in 0 .. DigestLen - 1 |-> FillByte(k)]

\* bytes with the bits start .. start + width - 1 replaced by the big-endian
\* digits of v.
SetBits(bytes, start, width, v) ==
    LET bit(k) == IF k >= start /\ k < start + width
                  THEN (v \div Pow2(start + width - 1 - k)) % 2
                  ELSE BitAt(bytes, k)
    IN  [i \in 0 .. DigestLen - 1 |->
            bit(8 * i) * 128 + bit(8 * i + 1) * 64 + bit(8 * i + 2) * 32
            + bit(8 * i + 3) * 16 + bit(8 * i + 4) * 8 + bit(8 * i + 5) * 4
            + bit(8 * i + 6) * 2 + bit(8 * i + 7)]

\* The digests the walk is run on: a constant fill with one byte replaced.
WalkDigests ==
    { [Fill(f) EXCEPT ![j] = ValByte(v)] :
        f \in 0 .. MaxFill, j \in 0 .. DigestLen - 1, v \in 0 .. MaxVal }

----------------------------------------------------------------------------
(* art.rs: generate_omikuji_art.                                           *)

start_pos == 0

\* Mutant: the pairs of a byte taken least significant pair first.
TwoBits_LowFirst(byte, sh) == (byte \div Pow2(sh)) % 4

\* (byte >> (6 - shift)) & 0b11
TwoBits(byte, sh) == (byte \div Pow2(6 - sh)) % 4

Movement(bits) ==
    CASE bits = 0 -> 0
      [] bits = 1 -> 1
      [] bits = 2 -> 2
      [] bits = 3 -> 3

\* i32::rem_euclid with a positive modulus: the result is never negative.
RemEuclid(a, n) == a % n

\* Mutant: the counter saturates at 127, as a signed byte would.
SaturatingAdd_Signed(x, y) == IF x + y > 127 THEN 127 ELSE x + y

\* u8::saturating_add
SaturatingAdd(x, y) == IF x + y > U8Max THEN U8Max ELSE x + y

\* Mutant: the end marker tested before the start marker.
CellChar_EndFirst(i, count, end_pos) ==
    IF i = end_pos THEN "E"
    ELSE IF i = start_pos THEN "S"
    ELSE IF count = 0 THEN "."
    ELSE IF count = 1 THEN "+"
    ELSE "#"

CellChar(i, count, end_pos) ==
    IF i = start_pos /\ i = end_pos THEN "X"
    ELSE IF i = start_pos THEN "S"
    ELSE IF i = end_pos THEN "E"
    ELSE IF count = 0 THEN "."
    ELSE IF count = 1 THEN "+"
    ELSE "#"

\* Mutant: the last cell is not rendered.
RenderArt_OffByOne(g, end_pos) ==
    [i \in 1 .. WIDTH - 1 |-> CellChar(i - 1, g[i - 1], end_pos)]

\* The String the final loop pushes one character per cell onto.
RenderArt(g, end_pos) == [i \in 1 .. WIDTH |-> CellChar(i - 1, g[i - 1], end_pos)]

\* The u64 0, and the bit of weight 2^j of a u64.
Zero64 == [j \in 1 .. U64Bits |-> 0]
Bit(x, j) == x[U64Bits - j]

IdleReader == start_bit = 0 /\ num_bits = 0 /\ result = Zero64
IdleFields ==
    /\ target = None
    /\ field = None
    /\ value = <<>>
    /\ exact = TRUE
    /\ reads = <<>>
IdleCli ==
    /\ date = NoneOpt
    /\ force_year = NoneOpt
    /\ now = <<1, 1>>
    /\ consulted = FALSE
    /\ outcome = NoneOpt
    /\ stderr = <<>>
    /\ stdout = <<>>
    /\ exit_status = NoneOpt
IdleArt ==
    /\ byte_idx = 0
    /\ shift = 0
    /\ position = 0
    /\ grid = [i \in 0 .. WIDTH - 1 |-> 0]
    /\ art = <<>>

InitArt ==
    /\ pc = "walk"
    /\ hash_bytes \in WalkDigests
    /\ IdleArt
    /\ IdleReader
    /\ IdleFields
    /\ IdleCli
    /\ calls = <<>>

\* One iteration of the inner loop of generate_omikuji_art.
WalkStep ==
    /\ pc = "walk"
    /\ byte_idx < DigestLen
    /\ LET bits == TwoBits(hash_bytes[byte_idx], shift)
           movement == Movement(bits)
           moved == RemEuclid(position + movement, WIDTH)
       IN  /\ position' = moved
           /\ grid' = [grid EXCEPT ![moved] = SaturatingAdd(@, 1)]
    /\ IF shift + 2 < 8
       THEN shift' = shift + 2 /\ byte_idx' = byte_idx
       ELSE shift' = 0 /\ byte_idx' = byte_idx + 1
    /\ UNCHANGED <<pc, hash_bytes, art, readerVars, fieldVars, cliVars, calls>>

\* The loops are over: the string is built and returned.
Render ==
    /\ pc = "walk"
    /\ byte_idx = DigestLen
    /\ LET end_pos == position
       IN  art' = RenderArt(grid, end_pos)
    /\ pc' = "done"
    /\ UNCHANGED <<hash_bytes, byte_idx, shift, position, grid, readerVars,
                   fieldVars, cliVars, calls>>

NextArt == WalkStep \/ Render

SpecArt == InitArt /\ [][NextArt]_vars

----------------------------------------------------------------------------
(* Claims about the art.                                                   *)

Alphabet == {"S", "E", "X", ".", "+", "#"}

CountOf(ch) == Cardinality({i \in 1 .. Len(art) : art[i] = ch})

\* C1: in the returned string the character at index 0 is S or X; it is X
\* exactly when the walk ended on cell 0, and then there is no S and no E;
\* otherwise there is exactly one S (index 0), exactly one E (the final
\* position) and no X.
C1_Markers ==
    pc = "done" =>
        /\ art[1] \in {"S", "X"}
        /\ (art[1] = "X") <=> (position = 0)
        /\ position = 0 => CountOf("X") = 1 /\ CountOf("S") = 0 /\ CountOf("E") = 0
        /\ position # 0 =>
              /\ CountOf("S") = 1 /\ art[1] = "S"
              /\ CountOf("E") = 1 /\ art[position + 1] = "E"
              /\ CountOf("X") = 0

\* A walk that moved and came back to cell 0.
C1_Witness ==
    /\ pc = "done"
    /\ art[1] = "X"
    /\ hash_bytes # ZeroDigest
    /\ \E i \in 1 .. WIDTH - 1 : grid[i] > 0

\* C2: the returned string has exactly 16 characters, each of S E X . + #.
C2_Shape ==
    pc = "done" => Len(art) = 16 /\ \A i \in 1 .. Len(art) : art[i] \in Alphabet

\* A returned string that uses every character but X.
C2_Witness ==
    /\ pc = "done"
    /\ {art[i] : i \in 1 .. Len(art)} = Alphabet \ {"X"}

\* The k-th two-bit code of the digest, k in 1 .. 128: most significant pair
\* of each byte first, bytes in order.
CodeOf(bytes, k) == (bytes[(k - 1) \div 4] \div (4 ^ (3 - ((k - 1) % 4)))) % 4

RECURSIVE PrefixSums(_, _)
\* <<c_1, c_1 + c_2, ..., c_1 + ... + c_4n>>: the prefix sums of the codes of
\* the first n bytes, a byte at a time.
PrefixSums(bytes, n) ==
    IF n = 0 THEN <<>>
    ELSE LET before == PrefixSums(bytes, n - 1)
             base == IF n = 1 THEN 0 ELSE before[Len(before)]
             c(m) == CodeOf(bytes, 4 * (n - 1) + m)
         IN  before \o <<base + c(1), base + c(1) + c(2),
                         base + c(1) + c(2) + c(3),
                         base + c(1) + c(2) + c(3) + c(4)>>

\* C10: the string is the rendering of the prefix-sum walk: step k lands on
\* p_k = (c_1 + ... + c_k) mod 16, the end is p_128, and a cell other than
\* cell 0 and the end cell shows . + or # for 0, 1 or at least 2 landings;
\* the markers take precedence on cell 0 and the end cell.  The all-zero
\* digest renders as "X...............".
C10_PrefixSumWalk ==
    pc = "done" =>
        LET sums == PrefixSums(hash_bytes, DigestLen)
            p(k) == sums[k] % 16
            endCell == p(4 * DigestLen)
            landings(i) == Cardinality({k \in 1 .. 4 * DigestLen : p(k) = i})
        IN  /\ Len(art) = 16
            /\ art[1] = (IF endCell = 0 THEN "X" ELSE "S")
            /\ endCell # 0 => art[endCell + 1] = "E"
            /\ \A i \in 1 .. 15 :
                  i # endCell =>
                      art[i + 1] = (IF landings(i) = 0 THEN "."
                                    ELSE IF landings(i) = 1 THEN "+" ELSE "#")
            /\ hash_bytes = ZeroDigest =>
                  art = <<"X", ".", ".", ".", ".", ".", ".", ".",
                          ".", ".", ".", ".", ".", ".", ".", ".">>

\* A walk whose string shows an unvisited, a once-visited and a revisited
\* cell beside its end marker.
C10_Witness ==
    /\ pc = "done"
    /\ position # 0
    /\ \E i, j, k \in 2 .. WIDTH : art[i] = "." /\ art[j] = "+" /\ art[k] = "#"

\* The steps of the walk made so far: four for each byte that is done, and
\* one for each pair of the current byte that is done.
StepsDone == 4 * byte_idx + shift \div 2

RECURSIVE GridSum(_, _)
\* The sum of the counters of the cells 0 .. n - 1.
GridSum(g, n) == IF n = 0 THEN 0 ELSE GridSum(g, n - 1) + g[n - 1]

\* C11: after each of the 128 steps the position is in 0..15, and the value
\* reduced modulo 16 is never negative; the 16 counters sum to the number of
\* steps made so far; when the walk is over the end cell's counter is at
\* least 1; no counter exceeds 128, so none reaches the saturation at 255.
C11_WalkInvariant ==
    /\ StepsDone \in 0 .. 4 * DigestLen
    /\ position \in 0 .. 15
    /\ byte_idx < DigestLen =>
          position + Movement(TwoBits(hash_bytes[byte_idx], shift)) >= 0
    /\ GridSum(grid, WIDTH) = StepsDone
    /\ byte_idx = DigestLen => grid[position] >= 1
    /\ \A i \in 0 .. WIDTH - 1 : grid[i] <= 128 /\ grid[i] < U8Max

\* The walk of the all-zero digest when it is over: all 128 steps landed on
\* cell 0.
C11_Witness ==
    /\ pc = "walk"
    /\ byte_idx = DigestLen
    /\ hash_bytes = ZeroDigest
    /\ grid[0] = 128
    /\ position = 0

----------------------------------------------------------------------------
(* hash.rs: HashBits::get_bits.                                            *)

MaxPattern == 2
MaxStartBit == 259
MaxNumBits == 66

\* x << 1 on a u64: the bit shifted out of bit 63 is lost, bit 0 becomes 0.
Shl1(x) == Append(Tail(x), 0)

\* x | (bit as u64) for a bit 0 or 1: only bit 0 of x can change.
OrBit(x, bit) == [x EXCEPT ![U64Bits] = IF @ = 1 \/ bit = 1 THEN 1 ELSE 0]

\* Mutant: the shift is done for every i, the bounds check guards only the read.
GetBitsBody_ShiftAlways(bytes, sb, i, res) ==
    LET bit_index == sb + i
        byte_index == bit_index \div 8
        bit_offset == 7 - (bit_index % 8)
    IN  IF byte_index < DigestLen
        THEN OrBit(Shl1(res), (bytes[byte_index] \div Pow2(bit_offset)) % 2)
        ELSE Shl1(res)

\* Mutant: bit_offset counts from the least significant bit of the byte.
GetBitsBody_LowFirst(bytes, sb, i, res) ==
    LET bit_index == sb + i
        byte_index == bit_index \div 8
        bit_offset == bit_index % 8
    IN  IF byte_index < DigestLen
        THEN OrBit(Shl1(res), (bytes[byte_index] \div Pow2(bit_offset)) % 2)
        ELSE res

\* The body of the loop of get_bits for one i: the result after it, from the
\* result before it.
GetBitsBody(bytes, sb, i, res) ==
    LET bit_index == sb + i
        byte_index == bit_index \div 8
        bit_offset == 7 - (bit_index % 8)
    IN  IF byte_index < DigestLen
        THEN OrBit(Shl1(res), (bytes[byte_index] \div Pow2(bit_offset)) % 2)
        ELSE res

RECURSIVE GetBitsLoop(_, _, _, _, _)
\* The iterations lo .. hi - 1 of the loop, in order, from the result res.
\* The range is run as its first half, then its second half from the u64
\* the first half produced, which keeps the evaluation shallow.
GetBitsLoop(bytes, sb, lo, hi, res) ==
    IF lo >= hi THEN res
    ELSE IF hi = lo + 1 THEN GetBitsBody(bytes, sb, lo, res)
    ELSE LET mid == lo + (hi - lo) \div 2
             first == GetBitsLoop(bytes, sb, lo, mid, res)
         IN  IF Len(first) = U64Bits
             THEN GetBitsLoop(bytes, sb, mid, hi, first)
             ELSE first

get_bits(bytes, sb, nb) == GetBitsLoop(bytes, sb, 0, nb, Zero64)

\* The digest bits the loop indexes: those whose byte_index passes the check.
ReadSet(sb, nb) == {k \in sb .. sb + nb - 1 : k \div 8 < DigestLen}

RECURSIVE NatOfLow(_, _)
\* The number the low w bits of a u64 spell: the value of a cast to w bits.
NatOfLow(x, w) ==
    IF w = 0 THEN 0
    ELSE (IF Bit(x, w - 1) = 1 THEN Pow2(w - 1) ELSE 0) + NatOfLow(x, w - 1)


\* The digests the reader is run on: all ones, and bytes in an arithmetic
\* progression.
PatternDigest(k) == [i \in 0 .. DigestLen - 1 |-> (255 + 155 * k + 227 * i * k) % 256]
ReaderDigests == {PatternDigest(k) : k \in 0 .. MaxPattern}

InitBits ==
    /\ pc = "idle"
    /\ hash_bytes \in ReaderDigests
    /\ IdleArt
    /\ IdleReader
    /\ IdleFields
    /\ IdleCli
    /\ calls = <<>>

\* A call get_bits(sb, nb).
CallGetBits ==
    /\ pc = "idle"
    /\ \E sb \in 0 .. MaxStartBit, nb \in 0 .. MaxNumBits :
        /\ start_bit' = sb
        /\ num_bits' = nb
        /\ result' = get_bits(hash_bytes, sb, nb)
        /\ pc' = "returned"
        /\ UNCHANGED <<hash_bytes, artVars, fieldVars, cliVars, calls>>

NextBits == CallGetBits

SpecBits == InitBits /\ [][NextBits]_vars

----------------------------------------------------------------------------
(* Claims about get_bits.                                                  *)

Min(a, b) == IF a < b THEN a ELSE b

RECURSIVE BigEndianSum(_, _, _, _)
\* sum over i in from .. nb - 1 of bit(sb + i) * 2^(nb - 1 - i)
BigEndianSum(bytes, sb, nb, from) ==
    IF from >= nb THEN 0
    ELSE BitAt(bytes, sb + from) * Pow2(nb - 1 - from)
         + BigEndianSum(bytes, sb, nb, from + 1)

\* C4: for 1 <= num_bits <= 64 and start_bit + num_bits <= 256 the result is
\* the big-endian unsigned integer of the bits start_bit .. start_bit +
\* num_bits - 1: bit j of the result is digest bit start_bit + num_bits - 1 - j
\* (the last bit read is bit 0), the bits from num_bits up are 0, and for
\* num_bits <= 30 the value is the sum of bit(start_bit+i) * 2^(num_bits-1-i).
C4_BigEndian ==
    (pc = "returned" /\ 1 <= num_bits /\ num_bits <= 64
        /\ start_bit + num_bits <= DigestBits) =>
        /\ \A j \in 0 .. U64Bits - 1 :
              Bit(result, j) = (IF j < num_bits
                           THEN BitAt(hash_bytes, start_bit + num_bits - 1 - j)
                           ELSE 0)
        /\ num_bits <= 30 =>
              NatOfLow(result, num_bits)
                  = BigEndianSum(hash_bytes, start_bit, num_bits, 0)

\* A 64-bit read across byte boundaries whose first and last bits differ.
C4_Witness ==
    /\ pc = "returned"
    /\ num_bits = 64
    /\ start_bit % 8 = 3
    /\ start_bit + num_bits <= DigestBits
    /\ Bit(result, 63) = 1
    /\ Bit(result, 0) = 0

\* C5: when start_bit + num_bits exceeds 256 the call returns, the positions
\* from 256 on neither add a bit nor shift: the result is that of
\* get_bits(start_bit, 256 - start_bit) when start_bit < 256 and 0 otherwise,
\* and it is below 2^min(num_bits, 256 - start_bit).
C5_Truncation ==
    (pc = "returned" /\ start_bit + num_bits > DigestBits) =>
        /\ start_bit < DigestBits =>
              /\ result = get_bits(hash_bytes, start_bit, DigestBits - start_bit)
              /\ \A j \in 0 .. U64Bits - 1 :
                    Bit(result, j) = (IF j < DigestBits - start_bit
                                 THEN BitAt(hash_bytes, DigestBits - 1 - j)
                                 ELSE 0)
        /\ start_bit >= DigestBits => result = Zero64
        /\ \A j \in 0 .. U64Bits - 1 :
              j >= Min(num_bits, DigestBits - start_bit) => Bit(result, j) = 0

\* A read that starts inside the digest and runs past its end, with a
\* nonzero result.
C5_Witness ==
    /\ pc = "returned"
    /\ start_bit < DigestBits
    /\ start_bit + num_bits > DigestBits + 2
    /\ result # Zero64
    /\ \E j \in 0 .. U64Bits - 1 : j < DigestBits - start_bit /\ Bit(result, j) = 0

----------------------------------------------------------------------------
(* hash.rs: the field accessors.  Each returns its value, whether every    *)
(* cast and shift in it kept the mathematical value, and the digest bits   *)
(* each of its get_bits calls indexed.                                     *)

\* x as u8, x as u16, x as u32, x as usize of a u64 x.
AsU8(x) == NatOfLow(x, 8)
AsU16(x) == NatOfLow(x, 16)
AsU32(x) == NatOfLow(x, 32)
AsUsize(x) == NatOfLow(x, U64Bits)

\* The cast of a u64 to w bits drops no set bit.
Fits(x, w) == \A j \in w .. U64Bits - 1 : Bit(x, j) = 0

\* n as i8 of an integer n: two's complement wrap-around.
AsI8(n) == ((n + 128) % 256) - 128

\* 1 << n in u8: the shift amount is taken modulo 8 and the value is cut to
\* 8 bits (a shift amount of 8 or more does not keep the value).
Shl8(x, n) == (x * Pow2(n % 8)) % 256

Ret(v, e, r) == [value |-> v, exact |-> e, reads |-> r]

lucky_number(bytes) ==
    LET raw == get_bits(bytes, 0, 8)
    IN  Ret(AsU8(raw), Fits(raw, 8), <<ReadSet(0, 8)>>)

lucky_hex(bytes) ==
    LET raw == get_bits(bytes, 8, 8)
    IN  Ret(AsU8(raw), Fits(raw, 8), <<ReadSet(8, 8)>>)

lucky_bits(bytes) ==
    LET raw == get_bits(bytes, 16, 16)
    IN  Ret(AsU16(raw), Fits(raw, 16), <<ReadSet(16, 16)>>)

lucky_day(bytes) ==
    LET raw == get_bits(bytes, 32, 9)
        val == AsU16(raw)
    IN  Ret((val % 365) + 1, Fits(raw, 16), <<ReadSet(32, 9)>>)

lucky_hour(bytes) ==
    LET raw == get_bits(bytes, 41, 5)
        val == AsU8(raw)
    IN  Ret(val % 24, Fits(raw, 8), <<ReadSet(41, 5)>>)

lucky_minute(bytes) ==
    LET raw == get_bits(bytes, 46, 6)
        val == AsU8(raw)
    IN  Ret(val % 60, Fits(raw, 8), <<ReadSet(46, 6)>>)

lucky_power_of_2(bytes) ==
    LET raw == get_bits(bytes, 52, 3)
        n == AsU8(raw)
    IN  Ret(Shl8(1, n), Fits(raw, 8) /\ n < 8 /\ Shl8(1, n) = Pow2(n),
            <<ReadSet(52, 3)>>)

lucky_ascii(bytes) ==
    LET raw == get_bits(bytes, 55, 7)
        val == AsU8(raw)
        ascii_code == 32 + (val % 95)
    IN  Ret(ascii_code, Fits(raw, 8) /\ ascii_code <= U8Max, <<ReadSet(55, 7)>>)

GATES == <<"AND", "OR", "XOR", "NOT", "NAND", "NOR", "XNOR", "BUFFER">>

\* Mutant: the gate is read one bit early, from bit 61.
lucky_logic_gate_OneEarly(bytes) ==
    LET raw == get_bits(bytes, 61, 3)
        val == AsUsize(raw)
    IN  Ret(GATES[(val % 8) + 1], TRUE, <<ReadSet(61, 3)>>)

lucky_logic_gate(bytes) ==
    LET raw == get_bits(bytes, 62, 3)
        val == AsUsize(raw)
    IN  Ret(GATES[(val % 8) + 1], TRUE, <<ReadSet(62, 3)>>)

luck_scores(bytes) ==
    LET raw(i) == get_bits(bytes, 65 + i * 8, 8)
    IN  Ret([i \in 1 .. 16 |-> AsU8(raw(i - 1))],
            \A i \in 0 .. 15 : Fits(raw(i), 8),
            [i \in 1 .. 16 |-> ReadSet(65 + (i - 1) * 8, 8)])

entropy_check(bytes) ==
    LET raw == get_bits(bytes, 193, 12)
    IN  Ret(AsU16(raw), Fits(raw, 16), <<ReadSet(193, 12)>>)

\* 0x1F600
BASE == 128512

\* char::from_u32(c).unwrap_or(U+1F600): c when it is a scalar value.
CharOrDefault(c) ==
    IF c <= 1114111 /\ ~(c >= 55296 /\ c <= 57343) THEN c ELSE BASE

lucky_emoji(bytes) ==
    LET raw == get_bits(bytes, 205, 6)
        val == AsU32(raw)
    IN  Ret(CharOrDefault(BASE + (val % 64)), Fits(raw, 32), <<ReadSet(205, 6)>>)

\* The eight arrows, by code point.
DIRS == <<"U+2191", "U+2197", "U+2192", "U+2198",
          "U+2193", "U+2199", "U+2190", "U+2196">>

lucky_direction(bytes) ==
    LET raw == get_bits(bytes, 211, 3)
        val == AsUsize(raw)
    IN  Ret(DIRS[(val % 8) + 1], TRUE, <<ReadSet(211, 3)>>)

ELEMENTS == <<"H (1)", "He (2)", "C (6)", "N (7)", "O (8)", "Na (11)",
              "Mg (12)", "Al (13)", "Si (14)", "Fe (26)", "Cu (29)",
              "Ag (47)", "Au (79)", "Pt (78)", "Pb (82)", "U (92)">>

lucky_element(bytes) ==
    LET raw == get_bits(bytes, 214, 4)
        val == AsUsize(raw)
    IN  Ret(ELEMENTS[(val % 16) + 1], TRUE, <<ReadSet(214, 4)>>)

lucky_percent(bytes) ==
    LET raw == get_bits(bytes, 218, 7)
        val == AsU8(raw)
    IN  Ret(val % 101, Fits(raw, 8), <<ReadSet(218, 7)>>)

\* Mutant: the cast to i8 is done before the subtraction.
lucky_latitude_CastFirst(bytes) ==
    LET raw == get_bits(bytes, 225, 8)
        val == AsU8(raw)
        narrow == AsI8(val % 181)
    IN  Ret(narrow - 90, Fits(raw, 8) /\ narrow = val % 181, <<ReadSet(225, 8)>>)

lucky_latitude(bytes) ==
    LET raw == get_bits(bytes, 225, 8)
        val == AsU8(raw)
        wide == (val % 181) - 90
    IN  Ret(AsI8(wide), Fits(raw, 8) /\ AsI8(wide) = wide, <<ReadSet(225, 8)>>)

\* Mutant: the nine bits are read from the last byte on.
lucky_longitude_LastByte(bytes) ==
    LET raw == get_bits(bytes, 248, 9)
        val == AsU16(raw)
    IN  Ret((val % 361) - 180, Fits(raw, 16), <<ReadSet(248, 9)>>)

lucky_longitude(bytes) ==
    LET raw == get_bits(bytes, 233, 9)
        val == AsU16(raw)
    IN  Ret((val % 361) - 180, Fits(raw, 16), <<ReadSet(233, 9)>>)

\* The bit ranges of the catalog, as the accessors' doc comments give them:
\* <<accessor, get_bits call of it, first bit, width>>.
FieldRanges ==
    {<<"lucky_number", 1, 0, 8>>, <<"lucky_hex", 1, 8, 8>>,
     <<"lucky_bits", 1, 16, 16>>, <<"lucky_day", 1, 32, 9>>,
     <<"lucky_hour", 1, 41, 5>>, <<"lucky_minute", 1, 46, 6>>,
     <<"lucky_power_of_2", 1, 52, 3>>, <<"lucky_ascii", 1, 55, 7>>,
     <<"lucky_logic_gate", 1, 62, 3>>, <<"entropy_check", 1, 193, 12>>,
     <<"lucky_emoji", 1, 205, 6>>, <<"lucky_direction", 1, 211, 3>>,
     <<"lucky_element", 1, 214, 4>>, <<"lucky_percent", 1, 218, 7>>,
     <<"lucky_latitude", 1, 225, 8>>, <<"lucky_longitude", 1, 233, 9>>}
    \cup {<<"luck_scores", i, 65 + (i - 1) * 8, 8>> : i \in 1 .. 16}

\* The fields whose raw value is reduced to a range.
RangeMapped ==
    {"lucky_day", "lucky_hour", "lucky_minute", "lucky_power_of_2",
     "lucky_ascii", "lucky_percent", "lucky_latitude", "lucky_longitude"}

\* The raw values a field is given: all of them for a range-mapped field,
\* samples for the others.
RawsOf(r) ==
    IF r[1] \in RangeMapped THEN 0 .. Pow2(r[4]) - 1
    ELSE {(ValByte(k) * 257) % Pow2(r[4]) : k \in 0 .. MaxVal}

Targets ==
    UNION { { [name |-> r[1], call |-> r[2], start |-> r[3], width |-> r[4],
               fill |-> f, raw |-> v] : v \in RawsOf(r), f \in 0 .. MaxFill } :
            r \in FieldRanges }

\* The digest is a constant fill with one field's bits set to a raw value.
InitFields ==
    /\ pc = "ready"
    /\ target \in Targets
    /\ hash_bytes = SetBits(Fill(target.fill), target.start, target.width, target.raw)
    /\ field = None
    /\ value = <<>>
    /\ exact = TRUE
    /\ reads = <<>>
    /\ IdleArt
    /\ IdleReader
    /\ IdleCli
    /\ calls = <<>>

\* A call of the accessor name, which returned r.
Returned(name, r) ==
    /\ pc = "ready"
    /\ field' = name
    /\ value' = r.value
    /\ exact' = r.exact
    /\ reads' = r.reads
    /\ pc' = "returned"
    /\ UNCHANGED <<hash_bytes, target, artVars, readerVars, cliVars, calls>>

CallLuckyNumber == Returned("lucky_number", lucky_number(hash_bytes))
CallLuckyHex == Returned("lucky_hex", lucky_hex(hash_bytes))
CallLuckyBits == Returned("lucky_bits", lucky_bits(hash_bytes))
CallLuckyDay == Returned("lucky_day", lucky_day(hash_bytes))
CallLuckyHour == Returned("lucky_hour", lucky_hour(hash_bytes))
CallLuckyMinute == Returned("lucky_minute", lucky_minute(hash_bytes))
CallLuckyPowerOf2 == Returned("lucky_power_of_2", lucky_power_of_2(hash_bytes))
CallLuckyAscii == Returned("lucky_ascii", lucky_ascii(hash_bytes))
CallLuckyLogicGate == Returned("lucky_logic_gate", lucky_logic_gate(hash_bytes))
CallLuckScores == Returned("luck_scores", luck_scores(hash_bytes))
CallEntropyCheck == Returned("entropy_check", entropy_check(hash_bytes))
CallLuckyEmoji == Returned("lucky_emoji", lucky_emoji(hash_bytes))
CallLuckyDirection == Returned("lucky_direction", lucky_direction(hash_bytes))
CallLuckyElement == Returned("lucky_element", lucky_element(hash_bytes))
CallLuckyPercent == Returned("lucky_percent", lucky_percent(hash_bytes))
CallLuckyLatitude == Returned("lucky_latitude", lucky_latitude(hash_bytes))
CallLuckyLongitude == Returned("lucky_longitude", lucky_longitude(hash_bytes))

NextFields ==
    \/ CallLuckyNumber
    \/ CallLuckyHex
    \/ CallLuckyBits
    \/ CallLuckyDay
    \/ CallLuckyHour
    \/ CallLuckyMinute
    \/ CallLuckyPowerOf2
    \/ CallLuckyAscii
    \/ CallLuckyLogicGate
    \/ CallLuckScores
    \/ CallEntropyCheck
    \/ CallLuckyEmoji
    \/ CallLuckyDirection
    \/ CallLuckyElement
    \/ CallLuckyPercent
    \/ CallLuckyLatitude
    \/ CallLuckyLongitude

SpecFields == InitFields /\ [][NextFields]_vars

----------------------------------------------------------------------------
(* Claims about the catalog.                                               *)

\* C3: for every raw value of its bit width, lucky_day is in 1..365,
\* lucky_hour in 0..23, lucky_minute in 0..59, lucky_percent in 0..100,
\* lucky_latitude in -90..90, lucky_longitude in -180..180, lucky_power_of_2
\* one of 1 2 4 8 16 32 64 128, lucky_ascii a code in 32..126; and no
\* narrowing cast and no shift of these accessors changes the value.
C3_RangeClosure ==
    (pc = "returned" /\ field \in RangeMapped) =>
        /\ exact
        /\ field = "lucky_day" => value \in 1 .. 365
        /\ field = "lucky_hour" => value \in 0 .. 23
        /\ field = "lucky_minute" => value \in 0 .. 59
        /\ field = "lucky_percent" => value \in 0 .. 100
        /\ field = "lucky_latitude" => value \in -90 .. 90
        /\ field = "lucky_longitude" => value \in -180 .. 180
        /\ field = "lucky_power_of_2" => value \in {1, 2, 4, 8, 16, 32, 64, 128}
        /\ field = "lucky_ascii" => value \in 32 .. 126

\* The latitude read from the raw value 255, whose remainder 74 gives -16.
C3_Witness ==
    /\ pc = "returned"
    /\ field = "lucky_latitude"
    /\ target.name = "lucky_latitude"
    /\ target.raw = 255
    /\ value = -16

TargetBits == target.start .. target.start + target.width - 1

\* What the accessor name returns on a digest.
ValueOf(name, bytes) ==
    CASE name = "lucky_number" -> lucky_number(bytes).value
      [] name = "lucky_hex" -> lucky_hex(bytes).value
      [] name = "lucky_bits" -> lucky_bits(bytes).value
      [] name = "lucky_day" -> lucky_day(bytes).value
      [] name = "lucky_hour" -> lucky_hour(bytes).value
      [] name = "lucky_minute" -> lucky_minute(bytes).value
      [] name = "lucky_power_of_2" -> lucky_power_of_2(bytes).value
      [] name = "lucky_ascii" -> lucky_ascii(bytes).value
      [] name = "lucky_logic_gate" -> lucky_logic_gate(bytes).value
      [] name = "luck_scores" -> luck_scores(bytes).value
      [] name = "entropy_check" -> entropy_check(bytes).value
      [] name = "lucky_emoji" -> lucky_emoji(bytes).value
      [] name = "lucky_direction" -> lucky_direction(bytes).value
      [] name = "lucky_element" -> lucky_element(bytes).value
      [] name = "lucky_percent" -> lucky_percent(bytes).value
      [] name = "lucky_latitude" -> lucky_latitude(bytes).value
      [] name = "lucky_longitude" -> lucky_longitude(bytes).value

\* C6: the bit ranges the accessors read are pairwise disjoint.  The digest
\* was built by setting the bits of one field (one get_bits call of one
\* accessor): that call reads exactly those bits, every other call of every
\* accessor reads none of them, and so every other value is what it is on
\* the digest in which that field was never set.
C6_Disjoint ==
    pc = "returned" =>
        /\ \A c \in 1 .. Len(reads) :
              IF field = target.name /\ c = target.call
              THEN reads[c] = TargetBits
              ELSE reads[c] \cap TargetBits = {}
        /\ field # target.name => value = ValueOf(field, Fill(target.fill))
        /\ field = "luck_scores" /\ target.name = "luck_scores" =>
              \A c \in 1 .. 16 :
                  c # target.call => value[c] = luck_scores(Fill(target.fill)).value[c]

\* The gate read from a digest in which only the neighbouring lucky_ascii
\* bits differ from the fill.
C6_Witness ==
    /\ pc = "returned"
    /\ field = "lucky_logic_gate"
    /\ target.name = "lucky_ascii"
    /\ hash_bytes # Fill(target.fill)
    /\ value = "AND"

\* The raw values 0..127 that lucky_percent maps to r.
PercentPreimage(r) ==
    {v \in 0 .. 127 : lucky_percent(SetBits(ZeroDigest, 218, 7, v)).value = r}

\* C9: lucky_percent is a fair map of the 7-bit raw value to 0..100: every
\* result 0..100 is produced by the same number of raw values.
C9_FairPercent ==
    (pc = "returned" /\ field = "lucky_percent") =>
        \A r \in 0 .. 100 :
            Cardinality(PercentPreimage(r)) = Cardinality(PercentPreimage(value))

\* The bits of the range r of the catalog.
RangeBits(r) == r[3] .. r[3] + r[4] - 1

\* The ranges of the catalog tile the bits 0 .. 241: they cover exactly those
\* bits, and each range starts where another one ends.
CatalogTiles ==
    /\ UNION {RangeBits(r) : r \in FieldRanges} = 0 .. 241
    /\ \A r \in FieldRanges :
          /\ r[4] >= 1
          /\ r[3] = 0 \/ \E q \in FieldRanges : q[3] + q[4] = r[3]
          /\ r[3] + r[4] = 242 \/ \E q \in FieldRanges : q[3] = r[3] + r[4]
          /\ \A q \in FieldRanges : q # r => RangeBits(q) \cap RangeBits(r) = {}

\* bytes with each of the bits 242 .. 255 inverted: the low six bits of
\* byte 30 and all of byte 31.
FlipTail(bytes) ==
    [bytes EXCEPT ![30] = (@ \div 64) * 64 + (63 - (@ % 64)), ![31] = 255 - @]

\* C12: every get_bits call of an accessor reads all the bits of its range of
\* the catalog, which ends at or before bit 256, so no call takes the
\* truncation branch; the ranges cover exactly the bits 0..241 with no gap
\* between consecutive fields; and the value returned does not change when
\* the bits 242..255 of the digest are all inverted.
C12_CatalogBounds ==
    pc = "returned" =>
        /\ Len(reads) = Cardinality({r \in FieldRanges : r[1] = field})
        /\ \A c \in 1 .. Len(reads) :
              \E r \in FieldRanges :
                  /\ r[1] = field /\ r[2] = c
                  /\ r[3] + r[4] <= DigestBits
                  /\ reads[c] = RangeBits(r)
                  /\ Cardinality(reads[c]) = r[4]
        /\ CatalogTiles
        /\ value = ValueOf(field, FlipTail(hash_bytes))

\* The longitude, whose range ends at bit 241, read from a digest whose bits
\* 242..255 are neither all clear nor all set, with its own bits set.
C12_Witness ==
    /\ pc = "returned"
    /\ field = "lucky_longitude"
    /\ target.name = "lucky_longitude"
    /\ 241 \in reads[1]
    /\ hash_bytes[31] \notin {0, 255}
    /\ value = (target.raw % 361) - 180
    /\ target.raw = 511

----------------------------------------------------------------------------
(* hash.rs: HashBits::from_seed.                                           *)

MaxYear == 20
MaxUserLen == 2

SALT == <<"s", "h", "a", "-", "o", "m", "i", "k", "u", "j", "i", "-", "2", "0", "2", "6">>

DigitChar(d) == <<"0", "1", "2", "3", "4", "5", "6", "7", "8", "9">>[d + 1]

RECURSIVE Decimal(_)
\* format!("{}", n) of an unsigned n: its decimal digits, no leading zero.
Decimal(n) == IF n < 10 THEN <<DigitChar(n)>> ELSE Append(Decimal(n \div 10), DigitChar(n % 10))

\* Mutant: no separator between the year and the user.
FormatSeed_NoSeparator(year, user) == Decimal(year) \o user \o <<"-">> \o SALT

\* format!("{}-{}-{}", year, user, SALT)
FormatSeed(year, user) == Decimal(year) \o <<"-">> \o user \o <<"-">> \o SALT

\* SHA-256 of a message, taken as collision-free: the digest is named by the
\* message it is the digest of.
Sha256(message) == [sha256_of |-> message]

from_seed(year, user) ==
    LET seed == FormatSeed(year, user)
    IN  [year |-> year, user |-> user, seed |-> seed, bytes |-> Sha256(seed)]

UserChars == {"-", "0"}
Users == UNION {[1 .. n -> UserChars] : n \in 0 .. MaxUserLen}

InitSeed ==
    /\ pc = "idle"
    /\ calls = <<>>
    /\ hash_bytes = ZeroDigest
    /\ IdleArt
    /\ IdleReader
    /\ IdleFields
    /\ IdleCli

\* A call HashBits::from_seed(year, user); the last two calls are kept.
CallFromSeed ==
    /\ Len(calls) < 2
    /\ \E year \in 0 .. MaxYear, user \in Users :
          calls' = Append(calls, from_seed(year, user))
    /\ UNCHANGED <<pc, hash_bytes, artVars, readerVars, fieldVars, cliVars>>

NextSeed == CallFromSeed

SpecSeed == InitSeed /\ [][NextSeed]_vars

\* C7: two calls whose year or user differ produce different digests: with
\* the hash collision-free, their seed strings "{year}-{user}-sha-omikuji-2026"
\* differ, also for users that are empty or contain '-' or digits.
C7_Sensitivity ==
    (Len(calls) = 2
        /\ (calls[1].year # calls[2].year \/ calls[1].user # calls[2].user)) =>
        /\ calls[1].seed # calls[2].seed
        /\ calls[1].bytes # calls[2].bytes

\* Year 2 with user "0" against year 20 with the empty user.
C7_Witness ==
    /\ Len(calls) = 2
    /\ calls[1].year = 2
    /\ calls[1].user = <<"0">>
    /\ calls[2].year = 20
    /\ calls[2].user = <<>>
    /\ calls[1].seed = <<"2", "-", "0", "-">> \o SALT

----------------------------------------------------------------------------
(* cli.rs: Args::is_january_first, Args::can_execute; main.rs: main.       *)

MaxDateLen == 7

\* The index of the first ch in s, 0 when there is none.
FirstIndex(s, ch) ==
    IF \E i \in 1 .. Len(s) : s[i] = ch
    THEN CHOOSE i \in 1 .. Len(s) : s[i] = ch /\ \A j \in 1 .. i - 1 : s[j] # ch
    ELSE 0

\* str::split_once(ch): the text before and after the first ch, if any.
split_once(s, ch) ==
    LET i == FirstIndex(s, ch)
    IN  IF i = 0 THEN NoneOpt
        ELSE Some(<<SubSeq(s, 1, i - 1), SubSeq(s, i + 1, Len(s))>>)

\* Mutant: a date override that does not parse falls through to the clock.
is_january_first_FallThrough(d, clock) ==
    LET a == IF d # NoneOpt THEN split_once(d[1], "-") ELSE NoneOpt
        b == IF a # NoneOpt THEN split_once(a[1][2], "-") ELSE NoneOpt
    IN  IF b # NoneOpt
        THEN [jan1 |-> b[1][1] = <<"0", "1">> /\ b[1][2] = <<"0", "1">>,
              consulted |-> FALSE]
        ELSE [jan1 |-> clock[1] = 1 /\ clock[2] = 1, consulted |-> TRUE]

\* The answer, and whether Local::now() was called for it.  clock is
\* <<month, day>> of the local date.
is_january_first(d, clock) ==
    IF d # NoneOpt
    THEN LET a == split_once(d[1], "-")
             b == IF a # NoneOpt THEN split_once(a[1][2], "-") ELSE NoneOpt
         IN  IF b # NoneOpt
             THEN [jan1 |-> b[1][1] = <<"0", "1">> /\ b[1][2] = <<"0", "1">>,
                   consulted |-> FALSE]
             ELSE [jan1 |-> FALSE, consulted |-> FALSE]
    ELSE [jan1 |-> clock[1] = 1 /\ clock[2] = 1, consulted |-> TRUE]

ErrMsg == "This command can only be executed on January 1st.\nUse --force-year <YYYY> to override."
Warning == "WARNING: Running outside January 1st with --force flag."

\* Result<bool, &str>: <<"Ok", show_warning>> or <<"Err", msg>>.
can_execute(jan1, fy) ==
    IF jan1 THEN <<"Ok", FALSE>>
    ELSE IF fy # NoneOpt THEN <<"Ok", TRUE>>
    ELSE <<"Err", ErrMsg>>

DateChars == {"0", "1", "-"}
DateTexts == UNION {[1 .. n -> DateChars] : n \in 0 .. MaxDateLen}
Clocks == {<<1, 1>>, <<1, 2>>, <<2, 1>>}

\* Args::parse() has returned.
InitCli ==
    /\ pc = "parsed"
    /\ date \in {NoneOpt} \cup {Some(t) : t \in DateTexts}
    /\ force_year \in {NoneOpt, Some(2026)}
    /\ now \in Clocks
    /\ consulted = FALSE
    /\ outcome = NoneOpt
    /\ stderr = <<>>
    /\ stdout = <<>>
    /\ exit_status = NoneOpt
    /\ hash_bytes = ZeroDigest
    /\ IdleArt
    /\ IdleReader
    /\ IdleFields
    /\ calls = <<>>

\* main calls args.can_execute().
CanExecute ==
    /\ pc = "parsed"
    /\ LET j == is_january_first(date, now)
       IN  /\ outcome' = Some(can_execute(j.jan1, force_year))
           /\ consulted' = j.consulted
    /\ pc' = "checked"
    /\ UNCHANGED <<hash_bytes, artVars, readerVars, fieldVars, calls, date,
                   force_year, now, stderr, stdout, exit_status>>

\* The Ok arm of main: the warning if asked for, then the result line.
MainOk ==
    /\ pc = "checked"
    /\ outcome[1][1] = "Ok"
    /\ stderr' = IF outcome[1][2] THEN Append(stderr, Warning) ELSE stderr
    /\ stdout' = Append(stdout, "Year: {}, User: {}")
    /\ exit_status' = Some(0)
    /\ pc' = "exited"
    /\ UNCHANGED <<hash_bytes, artVars, readerVars, fieldVars, calls, date,
                   force_year, now, consulted, outcome>>

\* The Err arm of main: the message, then std::process::exit(1).
MainErr ==
    /\ pc = "checked"
    /\ outcome[1][1] = "Err"
    /\ stderr' = Append(stderr, outcome[1][2])
    /\ exit_status' = Some(1)
    /\ pc' = "exited"
    /\ UNCHANGED <<hash_bytes, artVars, readerVars, fieldVars, calls, date,
                   force_year, now, consulted, outcome, stdout>>

NextCli == CanExecute \/ MainOk \/ MainErr

SpecCli == InitCli /\ [][NextCli]_vars

\* The date counts as January 1st: with an override, the text is a part
\* without '-' followed by "-01-01"; without one, the clock says so.
CountsAsJanuaryFirst ==
    IF date # NoneOpt
    THEN LET t == date[1]
             n == Len(t)
         IN  /\ n >= 6
             /\ SubSeq(t, n - 5, n) = <<"-", "0", "1", "-", "0", "1">>
             /\ \A i \in 1 .. n - 6 : t[i] # "-"
    ELSE now = <<1, 1>>

\* C8: can_execute returns Err exactly when the date is not January 1st and
\* force_year is absent, and main then exits with status 1 having printed no
\* result; Ok(true), with the warning printed, exactly when the date is not
\* January 1st and force_year is present; Ok(false), no warning, whenever the
\* date is January 1st.  With a --date override the date is January 1st only
\* if the text after the first '-' splits at its first '-' into "01" and
\* "01", and the clock is not consulted.
C8_Gate ==
    pc \in {"checked", "exited"} =>
        /\ outcome[1][1] = "Err" <=> (~CountsAsJanuaryFirst /\ force_year = NoneOpt)
        /\ outcome[1] = <<"Ok", TRUE>> <=> (~CountsAsJanuaryFirst /\ force_year # NoneOpt)
        /\ outcome[1] = <<"Ok", FALSE>> <=> CountsAsJanuaryFirst
        /\ date # NoneOpt => ~consulted
        /\ pc = "exited" =>
              /\ outcome[1][1] = "Err" =>
                    exit_status = Some(1) /\ stdout = <<>> /\ stderr = <<ErrMsg>>
              /\ outcome[1] = <<"Ok", TRUE>> =>
                    exit_status = Some(0) /\ stderr = <<Warning>> /\ stdout # <<>>
              /\ outcome[1] = <<"Ok", FALSE>> =>
                    exit_status = Some(0) /\ stderr = <<>> /\ stdout # <<>>

\* The override "--01-01" on a real January 1st without --force-year: the
\* run is refused.
C8_Witness ==
    /\ pc = "exited"
    /\ date = Some(<<"-", "-", "0", "1", "-", "0", "1">>)
    /\ now = <<1, 1>>
    /\ force_year = NoneOpt
    /\ exit_status = Some(1)
    /\ stdout = <<>>

=============================================================================
